---- MODULE Spec2Model ----
(***************************************************************************)
(* Model of breakers.Breaker (src/breakers/breaker.py): a circuit breaker  *)
(* whose state is derived from one trip timestamp (_last_open) and two     *)
(* rolling windows of unix-second timestamps (_calls, _errors).            *)
(*                                                                         *)
(* Every public operation is split at the points where the code reads the  *)
(* clock or where another thread may run, so that the clock may advance    *)
(* (and, in the concurrent specification, other threads may run) between   *)
(* the admission check, the window bookkeeping, the wrapped operation, the *)
(* trip decision and the trip itself.                                      *)
(***************************************************************************)
EXTENDS Integers, Sequences, FiniteSets, TLC

(* ------------------------------ bounds --------------------------------- *)
\* largest value of the unix-second clock
MaxClock == 3
\* most entries a caller lets accumulate in the live part of the calls window
MaxWindow == 5
\* the same, for callers that share the breaker between threads
MaxConcWindow == 2
\* largest value of the clock while threads share the breaker
MaxConcClock == 2

(* ------------------------- program constants --------------------------- *)
\* self._last_open = None
None == -1
\* self._minimum_threshold = 5
minimum_threshold == 5
\* the lock value of a free threading.Lock
Free == 0

\* threads that may use the shared breaker
Threads == {1, 2}
\* the single caller of the sequential specification
SeqThreads == {1}

\* (strategy, threshold) pairs given to the constructor
StrategyThresholds ==
    { <<"absolute", 1>>, <<"absolute", 2>>, <<"percentage", 60>>, <<"bogus", 1>> }
Durations == {1, 2}
ReenableAfters == {1, 2}

VARIABLES
    strategy,        \* self.strategy
    threshold,       \* self.threshold
    duration,        \* self.duration
    reenable_after,  \* self.reenable_after
    clock,           \* int(time.time())
    last_open,       \* self._last_open
    calls,           \* self._calls, a SortedList: a sorted sequence of timestamps
    errors,          \* self._errors
    calls_lock,      \* self._calls_lock: Free or the holding thread
    errors_lock,     \* self._errors_lock
    pc,              \* pc[t]: where thread t stands in its operation
    op,              \* op[t]: the public operation thread t runs ("call", "reset")
    count,           \* count[t]: the local `count` of process_error
    result,          \* result[t]: how thread t's last operation ended
    start,           \* start[t]: the breaker as it was when t's operation began
    reached,         \* some failure since the last reset filled the errors window to threshold
    ever_reached,    \* some failure, at any time, filled the errors window to threshold
    detached,        \* detached[t]: t's local `counter` is a list another thread has since replaced
    recorded,        \* recorded[t]: entries t's current call has inserted into each window
    overtaken,       \* overtaken[t]: a reset wrote _last_open after t decided to trip
    tripped,         \* trip() has run at least once
    tally            \* calls admitted and failed while nothing can have left the windows

vars == << strategy, threshold, duration, reenable_after, clock, last_open,
           calls, errors, calls_lock, errors_lock, pc, op, count, result,
           start, reached, ever_reached, detached, recorded, overtaken,
           tripped, tally >>

config == << strategy, threshold, duration, reenable_after >>

history == << reached, ever_reached, tripped >>

\* bookkeeping of the calls in flight
flight == << detached, recorded, overtaken, tally >>

(* --------------------------- pure helpers ------------------------------ *)
\* def now(): return int(time.time())
now == clock

\* irange with an exclusive minimum
irange_exclusive(counter, minimum) == SelectSeq(counter, LAMBDA ts : ts > minimum)

\* SortedList.irange(minimum): the entries >= minimum, in order
irange(counter, minimum) == SelectSeq(counter, LAMBDA ts : ts >= minimum)

\* add on a sorted set: a value already present is not inserted again
add_unique(counter, value) ==
    IF \E i \in DOMAIN counter : counter[i] = value
    THEN counter
    ELSE LET below == SelectSeq(counter, LAMBDA ts : ts < value)
             above == SelectSeq(counter, LAMBDA ts : ts > value)
         IN  below \o << value >> \o above

\* SortedList.add(value): insert keeping the list sorted (after equal entries)
add(counter, value) ==
    LET below == SelectSeq(counter, LAMBDA ts : ts <= value)
        above == SelectSeq(counter, LAMBDA ts : ts > value)
    IN  below \o << value >> \o above

\* increment_rolling_window that forgets to store the pruned list
prune_nothing(counter) == counter

\* first half of increment_rolling_window: drop the old entries
prune(counter) == irange(counter, now - duration)

\* @property last_open
LastOpen == last_open

\* open with the comparison turned round
open_flipped ==
    IF LastOpen # None THEN LastOpen < (now - reenable_after) ELSE FALSE

\* @property open
open ==
    IF LastOpen # None THEN LastOpen > (now - reenable_after) ELSE FALSE

\* half_open with the comparison of open
half_open_flipped ==
    IF LastOpen # None THEN LastOpen > (now - reenable_after) ELSE FALSE

\* half_open without the test for None
half_open_unchecked == LastOpen < (now - reenable_after)

\* @property half_open
half_open ==
    IF LastOpen # None THEN LastOpen < (now - reenable_after) ELSE FALSE

\* should_open_absolute with > for >=
should_open_absolute_strict(error_count) == error_count > threshold

\* should_open_absolute
should_open_absolute(error_count) == error_count >= threshold

\* should_open_percentage without the minimum number of requests
should_open_percentage_ungated(error_count) ==
    ((error_count * 100) \div Len(calls)) >= threshold

\* should_open_percentage with > for >=
should_open_percentage_strict(error_count) ==
    IF Len(calls) < minimum_threshold
    THEN FALSE
    ELSE ((error_count * 100) \div Len(calls)) > threshold

\* should_open_percentage
should_open_percentage(error_count) ==
    IF Len(calls) < minimum_threshold
    THEN FALSE
    ELSE ((error_count * 100) \div Len(calls)) >= threshold

\* the strategies should_open knows; any other raises NotImplementedError
KnownStrategy == strategy \in {"absolute", "percentage"}

\* should_open, for a known strategy
should_open(error_count) ==
    IF strategy = "absolute"
    THEN should_open_absolute(error_count)
    ELSE should_open_percentage(error_count)

(* ------------------------------ states --------------------------------- *)
\* a call that has inserted nothing yet
NoneRecorded == [calls |-> 0, errors |-> 0]

\* calls are tallied while no reset has run and the clock is within one
\* duration of the construction, so that no prune can discard an entry;
\* after that the tally is closed for good
Tallying == tally.open
ClosedTally == [admitted |-> 0, failed |-> 0, open |-> FALSE]

\* the other threads whose local `counter` is the list being replaced
Detach(t, label) ==
    [u \in Threads |-> IF u = t THEN FALSE ELSE (detached[u] \/ pc[u] = label)]

\* what an operation finds when it begins
Snapshot == [clock |-> clock, last_open |-> last_open, errors |-> errors]

Init ==
    /\ \E st \in StrategyThresholds : strategy = st[1] /\ threshold = st[2]
    /\ duration \in Durations
    /\ reenable_after \in ReenableAfters
    /\ clock = 0
    /\ last_open = None
    /\ calls = << >>
    /\ errors = << >>
    /\ calls_lock = Free
    /\ errors_lock = Free
    /\ pc = [t \in Threads |-> "idle"]
    /\ op = [t \in Threads |-> "none"]
    /\ count = [t \in Threads |-> 0]
    /\ result = [t \in Threads |-> "none"]
    /\ start = [t \in Threads |-> Snapshot]
    /\ reached = FALSE
    /\ ever_reached = FALSE
    /\ detached = [t \in Threads |-> FALSE]
    /\ recorded = [t \in Threads |-> NoneRecorded]
    /\ overtaken = [t \in Threads |-> FALSE]
    /\ tripped = FALSE
    /\ tally = [admitted |-> 0, failed |-> 0, open |-> TRUE]

\* operation t ends with outcome r
Finish(t, r) ==
    /\ pc' = [pc EXCEPT ![t] = "idle"]
    /\ result' = [result EXCEPT ![t] = r]

Goto(t, label) ==
    /\ pc' = [pc EXCEPT ![t] = label]
    /\ UNCHANGED result

(* ------------------------------ actions -------------------------------- *)
\* time passes: the next now() returns a later second
Tick ==
    /\ clock < MaxClock
    /\ clock' = clock + 1
    /\ tally' = IF clock' <= duration THEN tally ELSE ClosedTally
    /\ UNCHANGED << config, last_open, calls, errors, calls_lock, errors_lock,
                    pc, op, count, result, start, history, detached,
                    recorded, overtaken >>

\* call() / __call__: `if self.open: raise BreakerOpen()`
CallBegin(t) ==
    /\ pc[t] = "idle"
    /\ Len(prune(calls)) < MaxWindow
    /\ op' = [op EXCEPT ![t] = "call"]
    /\ start' = [start EXCEPT ![t] = Snapshot]
    /\ recorded' = [recorded EXCEPT ![t] = NoneRecorded]
    /\ IF open
       THEN /\ Finish(t, "BreakerOpen")
            /\ UNCHANGED tally
       ELSE /\ pc' = [pc EXCEPT ![t] = "calls_prune"]
            /\ result' = [result EXCEPT ![t] = "running"]
            /\ tally' = IF Tallying
                        THEN [tally EXCEPT !.admitted = @ + 1]
                        ELSE tally
    /\ UNCHANGED << config, clock, last_open, calls, errors, calls_lock,
                    errors_lock, count, history, detached, overtaken >>

\* the calls window pruned without holding self._calls_lock
CallsPrune_unlocked(t) ==
    /\ pc[t] = "calls_prune"
    /\ calls' = prune(calls)
    /\ detached' = Detach(t, "calls_add")
    /\ Goto(t, "calls_add")
    /\ UNCHANGED << config, clock, last_open, errors, calls_lock, errors_lock,
                    op, count, start, history, recorded, overtaken, tally >>

\* with self._calls_lock: increment_rolling_window('_calls'), the setattr
CallsPrune(t) ==
    /\ pc[t] = "calls_prune"
    /\ calls_lock = Free
    /\ calls_lock' = t
    /\ calls' = prune(calls)
    /\ detached' = Detach(t, "calls_add")
    /\ Goto(t, "calls_add")
    /\ UNCHANGED << config, clock, last_open, errors, errors_lock, op, count,
                    start, history, recorded, overtaken, tally >>

\* increment_rolling_window('_calls'): counter.add(now()), then the lock is released
CallsAdd(t) ==
    /\ pc[t] = "calls_add"
    /\ calls' = IF detached[t] THEN calls ELSE add(calls, now)
    /\ recorded' = [recorded EXCEPT ![t].calls = @ + Len(calls') - Len(calls)]
    /\ calls_lock' = Free
    /\ Goto(t, "func")
    /\ UNCHANGED << config, clock, last_open, errors, errors_lock, op, count,
                    start, history, detached, overtaken, tally >>

\* the wrapped operation returns
FuncReturns(t) ==
    /\ pc[t] = "func"
    /\ Goto(t, "process_success")
    /\ UNCHANGED << config, clock, last_open, calls, errors, calls_lock,
                    errors_lock, op, count, start, history, flight >>

\* the wrapped operation raises
FuncRaises(t) ==
    /\ pc[t] = "func"
    /\ Goto(t, "errors_prune")
    /\ tally' = IF Tallying THEN [tally EXCEPT !.failed = @ + 1] ELSE tally
    /\ UNCHANGED << config, clock, last_open, calls, errors, calls_lock,
                    errors_lock, op, count, start, history, detached,
                    recorded, overtaken >>

\* process_success: `if self.half_open: self.reset()`
process_success(t) ==
    /\ pc[t] = "process_success"
    /\ IF half_open
       THEN Goto(t, "reset_last_open")
       ELSE Finish(t, "returned")
    /\ UNCHANGED << config, clock, last_open, calls, errors, calls_lock,
                    errors_lock, op, count, start, history, flight >>

\* the public reset() is called
ResetBegin(t) ==
    /\ pc[t] = "idle"
    /\ op' = [op EXCEPT ![t] = "reset"]
    /\ start' = [start EXCEPT ![t] = Snapshot]
    /\ pc' = [pc EXCEPT ![t] = "reset_last_open"]
    /\ result' = [result EXCEPT ![t] = "running"]
    /\ UNCHANGED << config, clock, last_open, calls, errors, calls_lock,
                    errors_lock, count, history, flight >>

\* reset: self._last_open = None
ResetLastOpen(t) ==
    /\ pc[t] = "reset_last_open"
    /\ last_open' = None
    /\ reached' = FALSE
    /\ overtaken' = [u \in Threads |-> overtaken[u] \/ (u # t /\ pc[u] = "trip")]
    /\ tally' = ClosedTally
    /\ Goto(t, "reset_errors")
    /\ UNCHANGED << config, clock, calls, errors, calls_lock, errors_lock, op,
                    count, start, ever_reached, tripped, detached, recorded >>

\* reset that prunes the errors window where it should empty it
ResetErrors_pruning(t) ==
    /\ pc[t] = "reset_errors"
    /\ errors_lock = Free
    /\ errors' = prune(errors)
    /\ detached' = Detach(t, "errors_add")
    /\ Finish(t, IF op[t] = "call" THEN "returned" ELSE "reset")
    /\ UNCHANGED << config, clock, last_open, calls, calls_lock, errors_lock,
                    op, count, start, history, recorded, overtaken, tally >>

\* reset: with self._errors_lock: self._errors = SortedList()
ResetErrors(t) ==
    /\ pc[t] = "reset_errors"
    /\ errors_lock = Free
    /\ errors' = << >>
    /\ detached' = Detach(t, "errors_add")
    /\ Finish(t, IF op[t] = "call" THEN "returned" ELSE "reset")
    /\ UNCHANGED << config, clock, last_open, calls, calls_lock, errors_lock,
                    op, count, start, history, recorded, overtaken, tally >>

\* process_error: with self._errors_lock: increment_rolling_window('_errors'), the setattr
ErrorsPrune(t) ==
    /\ pc[t] = "errors_prune"
    /\ errors_lock = Free
    /\ errors_lock' = t
    /\ errors' = prune(errors)
    /\ detached' = Detach(t, "errors_add")
    /\ Goto(t, "errors_add")
    /\ UNCHANGED << config, clock, last_open, calls, calls_lock, op, count,
                    start, history, recorded, overtaken, tally >>

\* increment_rolling_window('_errors'): counter.add(now()); count = len(counter)
ErrorsAdd(t) ==
    /\ pc[t] = "errors_add"
    /\ errors' = IF detached[t] THEN errors ELSE add(errors, now)
    /\ recorded' = [recorded EXCEPT ![t].errors = @ + Len(errors') - Len(errors)]
    /\ count' = [count EXCEPT ![t] = Len(add(errors, now))]
    /\ reached' = (reached \/ Len(errors') >= threshold)
    /\ ever_reached' = (ever_reached \/ Len(errors') >= threshold)
    /\ errors_lock' = Free
    /\ Goto(t, "decide")
    /\ UNCHANGED << config, clock, last_open, calls, calls_lock, op, start,
                    tripped, detached, overtaken, tally >>

\* process_error: `if self.half_open or self.should_open(count)`
Decide(t) ==
    /\ pc[t] = "decide"
    /\ IF half_open
       THEN Goto(t, "trip")
       ELSE IF ~KnownStrategy
            THEN Finish(t, "NotImplementedError")
            ELSE IF should_open(count[t])
                 THEN Goto(t, "trip")
                 ELSE Finish(t, "raised")
    /\ overtaken' = [overtaken EXCEPT ![t] = FALSE]
    /\ UNCHANGED << config, clock, last_open, calls, errors, calls_lock,
                    errors_lock, op, count, start, history, detached,
                    recorded, tally >>

\* trip: self._last_open = now(); then the operation's error is re-raised
trip(t) ==
    /\ pc[t] = "trip"
    /\ last_open' = now
    /\ tripped' = TRUE
    /\ Finish(t, "raised")
    /\ UNCHANGED << config, clock, calls, errors, calls_lock, errors_lock, op,
                    count, start, reached, ever_reached, flight >>

(* --------------------------- specifications ---------------------------- *)
\* one caller at a time: the sequential behaviour of the breaker
Next ==
    \/ Tick
    \/ \E t \in SeqThreads : CallBegin(t)
    \/ \E t \in SeqThreads : CallsPrune(t)
    \/ \E t \in SeqThreads : CallsAdd(t)
    \/ \E t \in SeqThreads : FuncReturns(t)
    \/ \E t \in SeqThreads : FuncRaises(t)
    \/ \E t \in SeqThreads : process_success(t)
    \/ \E t \in SeqThreads : ResetBegin(t)
    \/ \E t \in SeqThreads : ResetLastOpen(t)
    \/ \E t \in SeqThreads : ResetErrors(t)
    \/ \E t \in SeqThreads : ErrorsPrune(t)
    \/ \E t \in SeqThreads : ErrorsAdd(t)
    \/ \E t \in SeqThreads : Decide(t)
    \/ \E t \in SeqThreads : trip(t)

Spec == Init /\ [][Next]_vars

\* one caller that only makes calls and never uses reset()
NextCalls ==
    \/ Tick
    \/ \E t \in SeqThreads : CallBegin(t)
    \/ \E t \in SeqThreads : CallsPrune(t)
    \/ \E t \in SeqThreads : CallsAdd(t)
    \/ \E t \in SeqThreads : FuncReturns(t)
    \/ \E t \in SeqThreads : FuncRaises(t)
    \/ \E t \in SeqThreads : process_success(t)
    \/ \E t \in SeqThreads : ResetLastOpen(t)
    \/ \E t \in SeqThreads : ResetErrors(t)
    \/ \E t \in SeqThreads : ErrorsPrune(t)
    \/ \E t \in SeqThreads : ErrorsAdd(t)
    \/ \E t \in SeqThreads : Decide(t)
    \/ \E t \in SeqThreads : trip(t)

SpecCalls == Init /\ [][NextCalls]_vars

\* the first thread runs any number of operations, every other thread one
MayBegin(t) == t \in SeqThreads \/ op[t] = "none"

\* the breakers the threads share: absolute strategy, a window of two seconds
\* and one second before a tripped breaker is probed
InitConc == Init /\ strategy = "absolute" /\ duration = 2 /\ reenable_after = 1

\* two threads share the breaker; every step of one may fall between any two
\* steps of the other
NextConc ==
    \/ clock < MaxConcClock /\ Tick
    \/ \E t \in Threads :
          MayBegin(t) /\ Len(prune(calls)) < MaxConcWindow /\ CallBegin(t)
    \/ \E t \in Threads : CallsPrune(t)
    \/ \E t \in Threads : CallsAdd(t)
    \/ \E t \in Threads : FuncReturns(t)
    \/ \E t \in Threads : FuncRaises(t)
    \/ \E t \in Threads : process_success(t)
    \/ \E t \in Threads : MayBegin(t) /\ ResetBegin(t)
    \/ \E t \in Threads : ResetLastOpen(t)
    \/ \E t \in Threads : ResetErrors(t)
    \/ \E t \in Threads : ErrorsPrune(t)
    \/ \E t \in Threads : ErrorsAdd(t)
    \/ \E t \in Threads : Decide(t)
    \/ \E t \in Threads : trip(t)

SpecConc == InitConc /\ [][NextConc]_vars

\* one caller whose operations fail only until the breaker first trips: from
\* then on every admitted call succeeds
NextLive ==
    \/ Tick
    \/ \E t \in SeqThreads : CallBegin(t)
    \/ \E t \in SeqThreads : CallsPrune(t)
    \/ \E t \in SeqThreads : CallsAdd(t)
    \/ \E t \in SeqThreads : FuncReturns(t)
    \/ \E t \in SeqThreads : ~tripped /\ FuncRaises(t)
    \/ \E t \in SeqThreads : process_success(t)
    \/ \E t \in SeqThreads : ResetLastOpen(t)
    \/ \E t \in SeqThreads : ResetErrors(t)
    \/ \E t \in SeqThreads : ErrorsPrune(t)
    \/ \E t \in SeqThreads : ErrorsAdd(t)
    \/ \E t \in SeqThreads : Decide(t)
    \/ \E t \in SeqThreads : trip(t)

\* the caller's steps: it keeps making calls and each call runs to its end
CallerSteps ==
    \E t \in SeqThreads :
        \/ CallBegin(t) \/ CallsPrune(t) \/ CallsAdd(t) \/ FuncReturns(t)
        \/ process_success(t) \/ ResetLastOpen(t) \/ ResetErrors(t)
        \/ ErrorsPrune(t) \/ ErrorsAdd(t) \/ Decide(t) \/ trip(t)

\* the clock keeps advancing and the caller keeps running
SpecLive ==
    Init /\ [][NextLive]_vars /\ WF_vars(Tick) /\ WF_vars(CallerSteps)

(* ------------------------- the spec's states --------------------------- *)
\* Closed, Open and Half-Open as the specification defines them
IsClosed(lo) == lo = None
IsOpen(lo, at) == lo # None /\ at - lo < reenable_after
IsHalfOpen(lo, at) == lo # None /\ at - lo >= reenable_after

AllIdle == \A t \in Threads : pc[t] = "idle"

(* ------------------------------ claims --------------------------------- *)
\* C1: a call that starts while the breaker is Open (lastOpenAt set and
\* now - lastOpenAt < reenableAfter) fails with BreakerOpen without reaching
\* the wrapped operation, and leaves calls, errors and lastOpenAt unchanged.
C1_OpenCallRejected ==
    [][\A t \in Threads :
         (CallBegin(t) /\ IsOpen(last_open, clock)) =>
             /\ result'[t] = "BreakerOpen"
             /\ pc'[t] = "idle"
             /\ calls' = calls
             /\ errors' = errors
             /\ last_open' = last_open]_vars

\* a call was rejected while Open, with entries in both windows
C1_Witness ==
    \E t \in Threads :
        /\ pc[t] = "idle" /\ op[t] = "call" /\ result[t] = "BreakerOpen"
        /\ IsOpen(start[t].last_open, start[t].clock)
        /\ calls # << >> /\ errors # << >>

\* C2 (as stated): under the absolute strategy, after any sequence of calls
\* the breaker is tripped iff some failing call brought the number of errors
\* in the window to at least threshold.
C2_TrippedIffEverReached ==
    (strategy = "absolute" /\ AllIdle) => ((last_open # None) <=> ever_reached)

\* C2 (amended): under the absolute strategy, after any sequence of calls the
\* breaker is tripped iff some failing call since the last successful
\* half-open probe (which resets the breaker) brought the number of errors in
\* the window to at least threshold.
C2_TrippedIffReachedSinceReset ==
    (strategy = "absolute" /\ AllIdle) => ((last_open # None) <=> reached)

\* threshold 2: the second failure in the window has tripped the breaker
C2_Witness ==
    /\ strategy = "absolute" /\ threshold = 2 /\ AllIdle
    /\ last_open # None /\ reached /\ Len(errors) = 2
    /\ \E t \in Threads : result[t] = "raised"

C4_PercentageTripsIffRate ==
    [][\A t \in Threads :
         (Decide(t) /\ strategy = "percentage" /\ IsClosed(last_open)
                    /\ Len(calls) >= 5) =>
             ((pc'[t] = "trip") <=> (Len(errors) * 100 >= threshold * Len(calls)))]_vars

\* the failure that brought the rate to exactly the threshold tripped the breaker
C4_Witness ==
    \E t \in Threads :
        /\ strategy = "percentage" /\ pc[t] = "idle" /\ result[t] = "raised"
        /\ start[t].last_open = None /\ last_open # None
        /\ Len(calls) >= 5 /\ Len(errors) * 100 = threshold * Len(calls)

\* C5: when lastOpenAt is set and now - lastOpenAt >= reenableAfter, one
\* successful call leaves the breaker Closed: lastOpenAt unset and the errors
\* window empty.
C5_ProbeSuccessCloses ==
    \A t \in Threads :
        ( /\ pc[t] = "idle" /\ op[t] = "call" /\ result[t] = "returned"
          /\ IsHalfOpen(start[t].last_open, start[t].clock) ) =>
            (last_open = None /\ errors = << >>)

\* C6: when lastOpenAt is set and now - lastOpenAt >= reenableAfter, a failing
\* call sets lastOpenAt to the current time and the breaker is Open right
\* afterwards, under both strategies and whatever the error count.
C6_ProbeFailureRetrips ==
    [][\A t \in Threads :
         ( /\ (Decide(t) \/ trip(t)) /\ pc'[t] = "idle"
           /\ KnownStrategy
           /\ IsHalfOpen(start[t].last_open, start[t].clock) ) =>
             (last_open' = clock' /\ IsOpen(last_open', clock'))]_vars

\* C7: a successful call made while the breaker is Closed leaves lastOpenAt
\* unset and the errors window as it was.
C7_ClosedSuccessKeepsClosed ==
    \A t \in Threads :
        ( /\ pc[t] = "idle" /\ op[t] = "call" /\ result[t] = "returned"
          /\ IsClosed(start[t].last_open) ) =>
            (last_open = None /\ errors = start[t].errors)

\* a successful call has ended on a Closed breaker that holds errors, at a
\* time when a tripped breaker would have been half-open
C7_Witness ==
    \E t \in Threads :
        /\ pc[t] = "idle" /\ op[t] = "call" /\ result[t] = "returned"
        /\ IsClosed(start[t].last_open) /\ last_open = None
        /\ errors # << >> /\ calls # << >>
        /\ clock > reenable_after

\* C8 (as stated): the count a failure's trip decision uses holds, besides
\* the failure itself, no error recorded at a time T with now - T >= duration.
C8_EvictsAtDuration ==
    [][\A t \in Threads :
         /\ ErrorsPrune(t) =>
              \A i \in DOMAIN errors' : ~(clock - errors'[i] >= duration)
         /\ ErrorsAdd(t) => count'[t] = Len(errors) + 1]_vars

\* C8 (amended): the count a failure's trip decision uses holds, besides the
\* failure itself, no error recorded at a time T with now - T > duration.
C8_EvictsPastDuration ==
    [][\A t \in Threads :
         /\ ErrorsPrune(t) =>
              \A i \in DOMAIN errors' : ~(clock - errors'[i] > duration)
         /\ ErrorsAdd(t) => count'[t] = Len(errors) + 1]_vars

\* a failure's pruning has dropped an old error and kept one exactly
\* duration seconds old
C8_Witness ==
    \E t \in Threads :
        /\ pc[t] = "errors_add"
        /\ Len(errors) < Len(start[t].errors)
        /\ errors # << >> /\ clock - errors[1] = duration

\* C9: reset(), in any state, ends with lastOpenAt unset and the errors
\* window empty, as a successful half-open probe does, and never touches the
\* calls window.
C9_ResetClears ==
    [][\A t \in Threads :
         (ResetBegin(t) \/ ResetLastOpen(t) \/ ResetErrors(t)) =>
             /\ calls' = calls
             /\ pc'[t] = "idle" => (last_open' = None /\ errors' = << >>)]_vars

\* reset() has ended after being called on an Open breaker with entries in
\* both windows
C9_Witness ==
    \E t \in Threads :
        /\ pc[t] = "idle" /\ op[t] = "reset" /\ result[t] = "reset"
        /\ IsOpen(start[t].last_open, start[t].clock)
        /\ start[t].errors # << >> /\ calls # << >>
        /\ last_open = None /\ errors = << >>

\* C10: an admitted call whose operation fails ends with the operation's own
\* error, whatever the configuration.
C10_FailureReraised ==
    [][\A t \in Threads :
         ((Decide(t) \/ trip(t)) /\ pc'[t] = "idle") =>
             result'[t] = "raised"]_vars

\* C11: at every clock value open is true iff lastOpenAt is set and
\* now - lastOpenAt < reenableAfter, and half_open is true iff lastOpenAt is
\* set and now - lastOpenAt >= reenableAfter.
C11_ProbesMatchStates ==
    /\ open <=> IsOpen(last_open, clock)
    /\ half_open <=> IsHalfOpen(last_open, clock)

\* C12: under any interleaving of the threads, when N calls were admitted and
\* M of them failed, all within one duration window and with no reset, the
\* calls window holds exactly N entries and the errors window exactly M once
\* all calls have finished.
C12_NoInsertionLost ==
    (AllIdle /\ tally.open) =>
        (Len(calls) = tally.admitted /\ Len(errors) = tally.failed)

\* two calls that overlapped (each began before the other recorded its
\* failure) have both failed and finished
C12_Witness ==
    /\ AllIdle /\ tally.open
    /\ tally.admitted = 2 /\ tally.failed = 2
    /\ \A t \in Threads :
          op[t] = "call" /\ result[t] = "raised" /\ start[t].errors = << >>

\* the pcs of a call whose wrapped operation has been invoked
Invoked == { "func", "process_success", "errors_prune", "errors_add", "decide",
             "trip", "reset_last_open", "reset_errors" }

\* C13: every admitted call records exactly one entry in the calls window
\* before the operation is invoked, whether it then succeeds or fails, and
\* exactly one entry in the errors window iff the operation fails.
C13_OneEntryPerCall ==
    \A t \in Threads :
        op[t] = "call" =>
            /\ pc[t] \in Invoked => recorded[t].calls = 1
            /\ pc[t] \in {"func", "process_success", "errors_prune"} =>
                   recorded[t].errors = 0
            /\ (pc[t] = "idle" /\ result[t] = "returned") =>
                   recorded[t] = [calls |-> 1, errors |-> 0]
            /\ (pc[t] = "idle" /\ result[t] \in {"raised", "NotImplementedError"}) =>
                   recorded[t] = [calls |-> 1, errors |-> 1]
            /\ (pc[t] = "idle" /\ result[t] = "BreakerOpen") =>
                   recorded[t] = [calls |-> 0, errors |-> 0]

\* a failing call has ended as the second call of the same second, with
\* both calls and both failures in the windows
C13_Witness ==
    \E t \in Threads :
        /\ pc[t] = "idle" /\ op[t] = "call" /\ result[t] = "raised"
        /\ recorded[t] = [calls |-> 1, errors |-> 1]
        /\ Len(calls) = 2 /\ calls[1] = calls[2]
        /\ Len(errors) = 2 /\ errors[1] = errors[2]

\* how many entries of window w carry timestamp v
Occ(w, v) == Cardinality({ i \in DOMAIN w : w[i] = v })

Pruned(w0, w1) ==
    \A v \in 0..(MaxClock + 1) :
        Occ(w1, v) = IF v < clock - duration THEN 0 ELSE Occ(w0, v)

Inserted(w0, w1) ==
    \A v \in 0..(MaxClock + 1) :
        Occ(w1, v) = Occ(w0, v) + (IF v = clock THEN 1 ELSE 0)

\* C14: increment_rolling_window discards exactly the entries with timestamp
\* < now - duration, inserts now and returns the resulting number of entries,
\* equal timestamps counted one by one: the k-th increment within one window
\* returns k.
C14_IncrementRollingWindow ==
    [][\A t \in Threads :
         /\ CallsPrune(t) => Pruned(calls, calls')
         /\ ErrorsPrune(t) => Pruned(errors, errors')
         /\ CallsAdd(t) => Inserted(calls, calls')
         /\ ErrorsAdd(t) =>
              /\ Inserted(errors, errors')
              /\ count'[t] = Len(errors')
              /\ tally.open => count'[t] = tally.failed]_vars

\* the third increment of the errors window within one second has returned 3
C14_Witness ==
    \E t \in Threads :
        /\ pc[t] = "decide" /\ count[t] = 3
        /\ Len(errors) = 3 /\ errors[1] = errors[3]
        /\ tally.open /\ tally.failed = 3

\* C15: wherever the breaker reads a window, the read of the calls-window
\* size inside the percentage trip decision included, the window holds only
\* timestamps t with now - duration <= t <= now.
C15_WindowsFreshWhenRead ==
    [][\A t \in Threads :
         (Decide(t) /\ strategy = "percentage" /\ ~half_open) =>
             \A i \in DOMAIN calls :
                 clock - duration <= calls[i] /\ calls[i] <= clock]_vars

\* C16: no reset takes effect between a failing call's trip decision and its
\* write of lastOpenAt: a failure that decided before a concurrent reset
\* never leaves the breaker Open once that reset has completed.
C16_NoTripAfterReset ==
    [][\A t \in Threads :
         ( /\ trip(t) /\ overtaken[t]
           /\ \A u \in Threads : pc[u] \notin {"reset_last_open", "reset_errors"} ) =>
             ~IsOpen(last_open', clock')]_vars

\* C17: while the breaker is Half-Open at most one operation is admitted and
\* in flight until that probe's outcome resets or re-trips the breaker (here
\* for calls admitted later than reenableAfter seconds after the trip).
C17_SingleProbe ==
    \A t1, t2 \in Threads :
        ( /\ t1 # t2
          /\ pc[t1] = "func" /\ pc[t2] = "func"
          /\ last_open # None
          /\ start[t1].last_open = last_open
          /\ start[t2].last_open = last_open
          /\ start[t1].clock - last_open > reenable_after
          /\ start[t2].clock - last_open > reenable_after ) => FALSE

\* the breaker is half-open for some time after a trip, given clock enough
RoomToRecover ==
    last_open # None /\ last_open + reenable_after + duration < MaxClock

\* C18: after a trip at T, if the clock keeps advancing, calls keep being made
\* and every admitted call succeeds, every call made with
\* now - T < reenableAfter is rejected and the breaker eventually becomes
\* Closed (lastOpenAt unset) and stays Closed.
C18_EventuallyClosed ==
    /\ [][\A t \in Threads :
            (CallBegin(t) /\ IsOpen(last_open, clock)) =>
                result'[t] = "BreakerOpen"]_vars
    /\ []((tripped /\ RoomToRecover) => <>[](last_open = None))

\* a successful call has closed the breaker that had tripped
C18_Witness ==
    \E t \in Threads :
        /\ tripped /\ last_open = None /\ errors = << >>
        /\ pc[t] = "idle" /\ op[t] = "call" /\ result[t] = "returned"
        /\ IsHalfOpen(start[t].last_open, start[t].clock)

\* C19: the error count a failed call passes to the percentage trip decision
\* is at most the size of the calls window the decision reads, so the error
\* percentage never exceeds 100.
C19_ErrorsAtMostCalls ==
    [][\A t \in Threads :
         ( /\ Decide(t) /\ strategy = "percentage" /\ ~half_open
           /\ Len(calls) >= minimum_threshold ) =>
             count[t] <= Len(calls)]_vars

\* C20: while the breaker is Open, a call admitted before the trip that
\* finishes neither records an error nor moves lastOpenAt.
C20_OpenIsFrozen ==
    [][\A t \in Threads :
         (IsOpen(last_open, clock) /\ (ErrorsAdd(t) \/ trip(t))) =>
             (errors' = errors /\ last_open' = last_open)]_vars

====
